---- MODULE Spec2Model ----
(***************************************************************************)
(* Model of src/2-wallet/wallet.ts: the vanity-address search              *)
(* (generateVanityWallet), its inline worker script, and the coordinator's *)
(* event handlers (worker 'message' / 'error' / 'exit', the timeout        *)
(* callback and the progress ticker).                                      *)
(*                                                                         *)
(* The main thread is a single-threaded event loop: each handler runs to   *)
(* completion, so each handler is one action.  Worker threads run in       *)
(* parallel with it and talk to it only through their message port, which  *)
(* is a FIFO per worker.  Messages already posted by a worker stay in its  *)
(* port after worker.terminate() and are still delivered to the 'message'  *)
(* listener before the worker's 'exit' event.                              *)
(*                                                                         *)
(* Also modelled: the recovery-phrase functions of wallet.ts               *)
(* (createWalletFromMnemonic, deriveMultipleWallets) and the SDK-calling   *)
(* operations getTokenBalance and mintTokens (src/unnamed/part_000),       *)
(* transferSOL and transferSPLToken (src/4-transfer/README.md) and         *)
(* getWalletBalances (src/3-walletinfo/README.md), each against an         *)
(* environment that says how every SDK call of the operation ends; the     *)
(* progress ticker of the search on the wall clock; and the token script   *)
(* at the end of src/unnamed/part_000 against a model of the token         *)
(* program's accounts.                                                     *)
(***************************************************************************)
EXTENDS Integers, Sequences, FiniteSets, TLC

(* ------------------------------ bounds --------------------------------- *)

\* largest threadsCount a request is drawn with
MaxThreads == 2

\* progress batches the workers may post, all together, in one search
MaxBatches == 1

\* progress periods the clock runs for after the call
MaxTicks == 2

(* ------------------------- program constants --------------------------- *)

\* setInterval(updateProgress, 100)
ProgressPeriod == 100

DefaultTimeout == 60000

progressInterval == 1000

isMainThread == TRUE

(* --------------------------- optional values --------------------------- *)
\* A JavaScript property that may be undefined: {} is undefined, {v} is v.

None == {}

Some(v) == {v}

Val(opt) == CHOOSE v \in opt : TRUE

\* truthiness of an optional string: undefined and "" are falsy
StrTruthy(opt) == opt # None /\ Val(opt) # <<>>

\* `opt || dflt` for an optional number: undefined and 0 are falsy
NumOr(opt, dflt) == IF opt # None /\ Val(opt) # 0 THEN Val(opt) ELSE dflt

Max(a, b) == IF a >= b THEN a ELSE b

(* ------------------------------ strings -------------------------------- *)
\* Strings are sequences of one-character strings.

LowerChar(c) == IF c = "A" THEN "a" ELSE IF c = "B" THEN "b" ELSE c

toLowerCase(s) == [i \in 1..Len(s) |-> LowerChar(s[i])]

startsWith(s, p) == Len(p) <= Len(s) /\ SubSeq(s, 1, Len(p)) = p

endsWith(s, p) == Len(p) <= Len(s) /\ SubSeq(s, Len(s) - Len(p) + 1, Len(s)) = p

(* ------------------------------ key pairs ------------------------------ *)
\* A secret key is <<seed byte, public byte>>; the address text is the
\* encoding of the public byte.

Seeds == {3, 5, 250}

PublicByteOf(seed) == (seed * 7) % 256

AddressOf(pub) ==
    IF pub = 21 THEN <<"a", "b">>
    ELSE IF pub = 35 THEN <<"A", "b">>
    ELSE <<"b", "a">>

\* Keypair.generate(): one of the key pairs the random source can produce
KeypairGenerate == { [secretKey |-> <<s, PublicByteOf(s)>>,
                      publicKey |-> AddressOf(PublicByteOf(s))] : s \in Seeds }

\* Array.from(keypair.secretKey)
ArrayFrom(bytes) == [i \in 1..Len(bytes) |-> bytes[i]]

\* new Uint8Array(array): every element is reduced modulo 256
Uint8Array(arr) == [i \in 1..Len(arr) |-> arr[i] % 256]

\* Keypair.fromSecretKey(bytes)
KeypairFromSecretKey(bytes) ==
    [secretKey |-> bytes, publicKey |-> AddressOf(bytes[2])]

NoKeypair == [secretKey |-> <<>>, publicKey |-> <<>>]

(* ------------------------------- state --------------------------------- *)

VARIABLES
    options,        \* the request passed to generateVanityWallet
    cpus,           \* os.cpus().length as read by the call, 0 if not read
    pc,             \* "idle" before the call, "thrown" / "called" after it
    thrown,         \* the error generateVanityWallet threw synchronously
    threadsCount,   \* const threadsCount
    timeout,        \* const timeout
    caseSensitive,  \* const caseSensitive
    promise,        \* the returned promise: state, keypair, error
    timeoutId,      \* "null" or "set"
    timer,          \* the setTimeout timer: "none", "pending", "fired", "cleared"
    updateInterval, \* the setInterval ticker: "none", "active", "cleared"
    workers,        \* const workers: the worker ids, in push order
    walletFound,    \* let walletFound
    totalAttempts,  \* let totalAttempts
    thread,         \* per worker: status and the script's `attempts`
    batches,        \* progress messages posted so far by all workers
    port,           \* per worker: messages posted and not yet delivered
    errorEvent,     \* per worker: an 'error' event is pending
    exitEvent,      \* per worker: "none", "handled"
    console,        \* how many lines of each kind were logged
    reported,       \* the attempt count printed by the found log line
    progressLine    \* the attempt count shown by the last progress tick

\* The wallet and token operations that run from call to return on their
\* own: they share no state with the search or with each other.
VARIABLES
    request,        \* the operation called and its arguments
    rpc,            \* per call site of the operation: how that call ends
    ledger,         \* what the successful queries answer
    calls,          \* the library and SDK calls the operation made, in order
    transaction,    \* the instructions of the Transaction it built
    outcome         \* pending, or what it returned, or what it threw

searchVars == <<options, cpus, pc, thrown, threadsCount, timeout,
                caseSensitive, promise, timeoutId, timer, updateInterval,
                workers, walletFound, totalAttempts, thread, batches, port,
                errorEvent, exitEvent, console, reported, progressLine>>

driverVars == <<request, rpc, ledger, calls, transaction, outcome>>

\* The clocks the progress ticker reads, from the moment of the call.
VARIABLES
    uptime,         \* monotonic milliseconds since the call (drives timers)
    wallSkew,       \* milliseconds the wall clock was set back since the call
    lastTick,       \* uptime at which the interval was set or last fired
    rateLine        \* the elapsed time and rate of the last progress line

clockVars == <<uptime, wallSkew, lastTick, rateLine>>

\* The token script at the end of the SPL token file.
VARIABLES
    step,           \* the script's position: index of the next operation
    chain,          \* the mint and the token accounts on the network
    locals,         \* payerBalance, recipientBalance, recipientTokenAccount
    demoError       \* the error the script's final catch received

demoVars == <<step, chain, locals, demoError>>

vars == <<searchVars, driverVars, clockVars, demoVars>>

WorkerIds == 1..MaxThreads

\* the hardware sizes os.cpus().length is drawn from
CpuCounts == {1, 3}

Prefixes == {None, Some(<<>>), Some(<<"a">>)}

Suffixes == {None, Some(<<"b">>)}

Options ==
    [prefix : Prefixes, suffix : Suffixes,
     caseSensitive : {None, Some(FALSE)},
     threadsCount : {None, Some(MaxThreads)},
     timeout : {None, Some(0), Some(50)}]

NoConsole == [start |-> 0, found |-> 0, timeout |-> 0, error |-> 0, exit |-> 0]

\* a request wide enough to tell the letter cases of a pattern apart, for
\* a search with a single worker
MatchOptions ==
    [prefix : {None, Some(<<"a">>), Some(<<"A">>), Some(<<"A", "b">>)},
     suffix : {None, Some(<<"b">>), Some(<<"B">>)},
     caseSensitive : {None, Some(TRUE), Some(FALSE)},
     threadsCount : {Some(1)},
     timeout : {Some(50)}]

\* the state before generateVanityWallet is called
SearchIdle ==
    /\ cpus = 0
    /\ pc = "idle"
    /\ thrown = "none"
    /\ threadsCount = 0
    /\ timeout = 0
    /\ caseSensitive = TRUE
    /\ promise = [state |-> "none", keypair |-> NoKeypair, error |-> "none"]
    /\ timeoutId = "null"
    /\ timer = "none"
    /\ updateInterval = "none"
    /\ workers = <<>>
    /\ walletFound = FALSE
    /\ totalAttempts = 0
    /\ thread = [w \in WorkerIds |-> [status |-> "unborn", attempts |-> 0]]
    /\ batches = 0
    /\ port = [w \in WorkerIds |-> <<>>]
    /\ errorEvent = [w \in WorkerIds |-> FALSE]
    /\ exitEvent = [w \in WorkerIds |-> "none"]
    /\ console = NoConsole
    /\ reported = 0
    /\ progressLine = 0

NoOutcome == [kind |-> "pending", value |-> None, error |-> None]

NoLedger == [decimals |-> 0, amount |-> 0, lamports |-> 0]

\* no wallet or token operation is called
DriverIdle ==
    /\ request = [op |-> "none"]
    /\ rpc = <<>>
    /\ ledger = NoLedger
    /\ calls = <<>>
    /\ transaction = <<>>
    /\ outcome = NoOutcome

NoRate == [shown |-> FALSE, elapsedMs |-> 0, kind |-> "finite", rate |-> 0]

\* the clocks at the moment of the call, no progress line written
ClockIdle ==
    /\ uptime = 0
    /\ wallSkew = 0
    /\ lastTick = 0
    /\ rateLine = NoRate

\* const tokenDecimals = 6
tokenDecimals == 6

Owners == {"payer", "recipient"}

NoAccount == [exists |-> FALSE, amount |-> 0, frozen |-> FALSE, delegated |-> 0]

NoChain ==
    [minted |-> FALSE, supply |-> 0, mintAuthority |-> "none",
     account |-> [o \in Owners |-> NoAccount]]

NoLocals ==
    [payerBalance |-> None, recipientBalance |-> None,
     recipientTokenAccount |-> None]

\* the token script is not run
DemoIdle ==
    /\ step = 0
    /\ chain = NoChain
    /\ locals = NoLocals
    /\ demoError = None

Init ==
    options \in Options /\ SearchIdle /\ DriverIdle /\ ClockIdle /\ DemoIdle

InitMatch ==
    /\ options \in MatchOptions
    /\ SearchIdle /\ DriverIdle /\ ClockIdle /\ DemoIdle

\* the requests of a single-worker search whose loop is followed attempt by
\* attempt
WorkerOptions ==
    [prefix : {Some(<<"a">>)},
     suffix : {None},
     caseSensitive : {None, Some(FALSE)},
     threadsCount : {Some(1)},
     timeout : {Some(50)}]

InitWorker ==
    /\ options \in WorkerOptions
    /\ SearchIdle /\ DriverIdle /\ ClockIdle /\ DemoIdle

\* valid requests with every kind of timeout, for one worker or as many as
\* the hardware gives
FairOptions ==
    [prefix : {Some(<<"a">>)},
     suffix : {None},
     caseSensitive : {None},
     threadsCount : {None, Some(1)},
     timeout : {None, Some(0), Some(50)}]

InitFair ==
    /\ options \in FairOptions
    /\ SearchIdle /\ DriverIdle /\ ClockIdle /\ DemoIdle

\* a single-worker search whose progress ticker is followed on the clock
InitClock ==
    /\ options \in WorkerOptions
    /\ SearchIdle /\ DriverIdle /\ ClockIdle /\ DemoIdle

(* --------------------------- worker script ----------------------------- *)

\* variant of searchPrefix that never lower-cases the requested prefix
searchPrefixRaw ==
    IF StrTruthy(options.prefix) THEN Val(options.prefix) ELSE <<>>

searchPrefix ==
    IF StrTruthy(options.prefix)
    THEN (IF caseSensitive THEN Val(options.prefix)
          ELSE toLowerCase(Val(options.prefix)))
    ELSE <<>>

searchSuffix ==
    IF StrTruthy(options.suffix)
    THEN (IF caseSensitive THEN Val(options.suffix)
          ELSE toLowerCase(Val(options.suffix)))
    ELSE <<>>

\* variant of checkAddress that folds case whatever caseSensitive says
checkAddressIgnoreCase(address) ==
    LET addr == toLowerCase(address)
    IN  /\ ~(searchPrefix # <<>> /\ ~startsWith(addr, toLowerCase(searchPrefix)))
        /\ ~(searchSuffix # <<>> /\ ~endsWith(addr, toLowerCase(searchSuffix)))

checkAddress(address) ==
    LET addr == IF caseSensitive THEN address ELSE toLowerCase(address)
    IN  /\ ~(searchPrefix # <<>> /\ ~startsWith(addr, searchPrefix))
        /\ ~(searchSuffix # <<>> /\ ~endsWith(addr, searchSuffix))

FoundMessage(keypair, attempts) ==
    [found |-> TRUE, progress |-> FALSE,
     publicKey |-> keypair.publicKey,
     secretKey |-> ArrayFrom(keypair.secretKey),
     attempts |-> attempts]

ProgressMessage ==
    [found |-> FALSE, progress |-> TRUE,
     publicKey |-> <<>>, secretKey |-> <<>>,
     attempts |-> progressInterval]

\* the first multiple of progressInterval above the attempt counter a
NextBoundary(a) == ((a \div progressInterval) + 1) * progressInterval

\* how far past the last batch boundary the matching attempt may lie
MatchOffsets == {1}

\* A thread that has stopped: its script's variables are gone with it.
Stopped(status) == [status |-> status, attempts |-> 0]

\* One run of the while(true) loop of worker w up to its next postMessage.
\* The iterations in between change only the script's local `attempts`.
\* Either some attempt before or at the next boundary matches (found message,
\* break), or every attempt up to the boundary misses (progress message).
WorkerRun(w) ==
    /\ thread[w].status = "running"
    /\ LET a == thread[w].attempts
           b == NextBoundary(a)
           canMiss == \E k \in KeypairGenerate : ~checkAddress(k.publicKey)
       IN  \/ \E d \in MatchOffsets, k \in KeypairGenerate :
                /\ a + d <= b
                /\ checkAddress(k.publicKey)
                /\ (d > 1 => canMiss)
                /\ thread' = [thread EXCEPT ![w] = Stopped("finished")]
                /\ port' = [port EXCEPT ![w] =
                                Append(@, FoundMessage(k, a + d))]
                /\ UNCHANGED batches
           \/ /\ canMiss
              /\ batches < MaxBatches
              /\ thread' = [thread EXCEPT ![w].attempts = b]
              /\ port' = [port EXCEPT ![w] = Append(@, ProgressMessage)]
              /\ batches' = batches + 1
    /\ UNCHANGED driverVars
    /\ UNCHANGED demoVars
    /\ UNCHANGED clockVars
    /\ UNCHANGED <<options, cpus, pc, thrown, threadsCount, timeout,
                   caseSensitive, promise, timeoutId, timer, updateInterval,
                   workers, walletFound, totalAttempts, errorEvent, exitEvent,
                   console, reported, progressLine>>

\* variant of PostsProgress that is one attempt late
PostsProgressLate(a) == (a - 1) % progressInterval = 0

\* if (attempts % progressInterval === 0)
PostsProgress(a) == a % progressInterval = 0

\* One iteration of the while(true) loop of worker w: attempts++, generate
\* a key pair, post a found message and stop if its address matches, else
\* post a progress message if the attempt closes a batch.
WorkerAttempt(w) ==
    /\ thread[w].status = "running"
    /\ LET a == thread[w].attempts + 1
       IN  \E k \in KeypairGenerate :
             IF checkAddress(k.publicKey)
             THEN /\ thread' = [thread EXCEPT ![w] = Stopped("finished")]
                  /\ port' = [port EXCEPT ![w] = Append(@, FoundMessage(k, a))]
                  /\ UNCHANGED batches
             ELSE IF PostsProgress(a)
             THEN /\ batches < MaxBatches
                  /\ thread' = [thread EXCEPT ![w].attempts = a]
                  /\ port' = [port EXCEPT ![w] = Append(@, ProgressMessage)]
                  /\ batches' = batches + 1
             ELSE /\ thread' = [thread EXCEPT ![w].attempts = a]
                  /\ UNCHANGED <<port, batches>>
    /\ UNCHANGED driverVars
    /\ UNCHANGED demoVars
    /\ UNCHANGED clockVars
    /\ UNCHANGED <<options, cpus, pc, thrown, threadsCount, timeout,
                   caseSensitive, promise, timeoutId, timer, updateInterval,
                   workers, walletFound, totalAttempts, errorEvent, exitEvent,
                   console, reported, progressLine>>

\* The worker thread dies with an uncaught exception: an 'error' event is
\* queued for the coordinator.
WorkerThrow(w) ==
    /\ thread[w].status = "running"
    /\ thread' = [thread EXCEPT ![w] = Stopped("crashed")]
    /\ errorEvent' = [errorEvent EXCEPT ![w] = TRUE]
    /\ UNCHANGED driverVars
    /\ UNCHANGED demoVars
    /\ UNCHANGED clockVars
    /\ UNCHANGED <<options, cpus, pc, thrown, threadsCount, timeout,
                   caseSensitive, promise, timeoutId, timer, updateInterval,
                   workers, walletFound, totalAttempts, batches, port,
                   exitEvent, console, reported, progressLine>>

(* ----------------------------- coordinator ----------------------------- *)

\* variant of Terminate that restarts the shutdown of a stopped thread
TerminateAgain(th, w) ==
    IF th[w].status # "unborn"
    THEN [th EXCEPT ![w] = Stopped("terminated")]
    ELSE th

\* worker.terminate(): stops a running thread, no effect on a stopped one
Terminate(th, w) ==
    IF th[w].status = "running"
    THEN [th EXCEPT ![w] = Stopped("terminated")]
    ELSE th

Range(seq) == { seq[i] : i \in 1..Len(seq) }

\* variant of TerminateAll that stops short of the last worker pushed
TerminateAllButLast(th) ==
    [w \in WorkerIds |->
        IF w \in Range(workers) /\ w < Len(workers) /\ th[w].status = "running"
        THEN Stopped("terminated")
        ELSE th[w]]

\* workers.forEach(w => w.terminate())
TerminateAll(th) ==
    [w \in WorkerIds |->
        IF w \in Range(workers) /\ th[w].status = "running"
        THEN Stopped("terminated")
        ELSE th[w]]

\* resolve / reject: a promise settles once, later calls are ignored
Resolve(p, keypair) ==
    IF p.state = "pending"
    THEN [state |-> "fulfilled", keypair |-> keypair, error |-> "none"]
    ELSE p

Reject(p, err) ==
    IF p.state = "pending"
    THEN [state |-> "rejected", keypair |-> NoKeypair, error |-> err]
    ELSE p

\* clearTimeout / clearInterval
ClearTimer(t) == IF t = "pending" THEN "cleared" ELSE t

ClearInterval(t) == IF t = "active" THEN "cleared" ELSE t

\* variant of MissingPattern that tests for undefined only, so that an empty
\* string counts as a pattern
MissingPatternUndefinedOnly(opts) == opts.prefix = None /\ opts.suffix = None

\* if (!options.prefix && !options.suffix)
MissingPattern(opts) == ~StrTruthy(opts.prefix) /\ ~StrTruthy(opts.suffix)

\* `||` evaluates its right operand only when the left one is falsy
Falsy(opt) == opt = None \/ Val(opt) = 0

\* variant of ThreadsCountOf without the minimum of one worker
ThreadsCountNoMinimum(opts, cpuCount) == NumOr(opts.threadsCount, cpuCount - 1)

\* options.threadsCount || Math.max(1, os.cpus().length - 1)
ThreadsCountOf(opts, cpuCount) == NumOr(opts.threadsCount, Max(1, cpuCount - 1))

\* variant of TimeoutOf that keeps a timeout of 0 (options.timeout ?? 60000)
TimeoutOfNullish(opts) ==
    IF opts.timeout = None THEN DefaultTimeout ELSE Val(opts.timeout)

\* options.timeout || 60000
TimeoutOf(opts) == NumOr(opts.timeout, DefaultTimeout)

\* options.caseSensitive !== undefined ? options.caseSensitive : true
CaseSensitiveOf(opts) ==
    IF opts.caseSensitive # None THEN Val(opts.caseSensitive) ELSE TRUE

\* if (timeout > 0) timeoutId = setTimeout(...)
ArmsTimer(t) == t > 0

\* variant of RegisteredWorkers that leaves the first worker out of the list
RegisteredWorkersButFirst(count) == [i \in 1..(count - 1) |-> i + 1]

\* workers.push(worker) for each worker of the spawn loop, in order
RegisteredWorkers(count) == [i \in 1..count |-> i]

\* generateVanityWallet(options): the validation, the defaults and the
\* promise executor (ticker, timer, spawn loop) all run synchronously.
Call ==
    /\ pc = "idle"
    /\ IF ~isMainThread
       THEN /\ pc' = "thrown"
            /\ thrown' = "NotMainThread"
            /\ UNCHANGED <<cpus, threadsCount, timeout, caseSensitive,
                           promise, timeoutId, timer, updateInterval, workers,
                           thread, console>>
       ELSE IF MissingPattern(options)
       THEN /\ pc' = "thrown"
            /\ thrown' = "InvalidRequest"
            /\ UNCHANGED <<cpus, threadsCount, timeout, caseSensitive,
                           promise, timeoutId, timer, updateInterval, workers,
                           thread, console>>
       ELSE /\ pc' = "called"
            /\ thrown' = "none"
            /\ IF Falsy(options.threadsCount)
               THEN cpus' \in CpuCounts
               ELSE cpus' = cpus
            /\ threadsCount' = ThreadsCountOf(options, cpus')
            /\ timeout' = TimeoutOf(options)
            /\ caseSensitive' = CaseSensitiveOf(options)
            /\ promise' = [promise EXCEPT !.state = "pending"]
            /\ console' = [console EXCEPT !.start = 1]
            /\ updateInterval' = "active"
            /\ IF ArmsTimer(timeout')
               THEN timeoutId' = "set" /\ timer' = "pending"
               ELSE timeoutId' = "null" /\ timer' = "none"
            /\ workers' = RegisteredWorkers(threadsCount')
            /\ thread' = [w \in WorkerIds |->
                            IF w <= threadsCount'
                            THEN [status |-> "running", attempts |-> 0]
                            ELSE thread[w]]
    /\ UNCHANGED driverVars
    /\ UNCHANGED demoVars
    /\ UNCHANGED clockVars
    /\ UNCHANGED <<options, walletFound, totalAttempts, batches, port,
                   errorEvent, exitEvent, reported, progressLine>>

\* updateProgress, run by the interval ticker
UpdateProgress ==
    /\ updateInterval = "active"
    /\ progressLine # totalAttempts
    /\ progressLine' = totalAttempts
    /\ UNCHANGED driverVars
    /\ UNCHANGED demoVars
    /\ UNCHANGED clockVars
    /\ UNCHANGED <<options, cpus, pc, thrown, threadsCount, timeout,
                   caseSensitive, promise, timeoutId, timer, updateInterval,
                   workers, walletFound, totalAttempts, thread, batches, port,
                   errorEvent, exitEvent, console, reported>>

\* the setTimeout callback
OnTimeout ==
    /\ timer = "pending"
    /\ timer' = "fired"
    /\ updateInterval' = ClearInterval(updateInterval)
    /\ console' = [console EXCEPT !.timeout = @ + 1]
    /\ thread' = TerminateAll(thread)
    /\ promise' = Reject(promise, "Timeout")
    /\ UNCHANGED driverVars
    /\ UNCHANGED demoVars
    /\ UNCHANGED clockVars
    /\ UNCHANGED <<options, cpus, pc, thrown, threadsCount, timeout,
                   caseSensitive, timeoutId, workers, walletFound,
                   totalAttempts, batches, port, errorEvent, exitEvent,
                   reported, progressLine>>

\* variant of FoldProgress that subtracts the delta
FoldProgressSubtract(total, message) == total - message.attempts

\* totalAttempts += message.attempts
FoldProgress(total, message) == total + message.attempts

\* variant of HonorsFound without the walletFound guard
HonorsEveryFound(message) == message.found

\* if (message.found && !walletFound)
HonorsFound(message) == message.found /\ ~walletFound

\* worker.on('message', ...) for the oldest undelivered message of worker w
OnMessage(w) ==
    /\ port[w] # <<>>
    /\ exitEvent[w] = "none"
    /\ LET message == Head(port[w])
       IN  IF HonorsFound(message)
           THEN /\ walletFound' = TRUE
                /\ updateInterval' = ClearInterval(updateInterval)
                /\ console' = [console EXCEPT !.found = @ + 1]
                /\ reported' = totalAttempts + message.attempts
                /\ thread' = TerminateAll(thread)
                /\ timer' = IF timeoutId # "null" THEN ClearTimer(timer)
                            ELSE timer
                /\ promise' = Resolve(promise,
                       KeypairFromSecretKey(Uint8Array(message.secretKey)))
                /\ UNCHANGED totalAttempts
           ELSE IF message.progress
           THEN /\ totalAttempts' = FoldProgress(totalAttempts, message)
                /\ UNCHANGED <<walletFound, updateInterval, console, reported,
                               thread, timer, promise>>
           ELSE UNCHANGED <<walletFound, updateInterval, console, reported,
                            thread, timer, promise, totalAttempts>>
    /\ port' = [port EXCEPT ![w] = Tail(@)]
    /\ UNCHANGED driverVars
    /\ UNCHANGED demoVars
    /\ UNCHANGED clockVars
    /\ UNCHANGED <<options, cpus, pc, thrown, threadsCount, timeout,
                   caseSensitive, timeoutId, workers, batches, errorEvent,
                   exitEvent, progressLine>>

\* variant of ErrorTerminates that stops every worker on one worker's error
ErrorTerminatesAll(th, w) == IF ~walletFound THEN TerminateAll(th) ELSE th

\* the threads after the 'error' handler of worker w ran
ErrorTerminates(th, w) == IF ~walletFound THEN Terminate(th, w) ELSE th

\* worker.on('error', ...)
OnError(w) ==
    /\ errorEvent[w]
    /\ errorEvent' = [errorEvent EXCEPT ![w] = FALSE]
    /\ console' = [console EXCEPT !.error = @ + 1]
    /\ thread' = ErrorTerminates(thread, w)
    /\ UNCHANGED driverVars
    /\ UNCHANGED demoVars
    /\ UNCHANGED clockVars
    /\ UNCHANGED <<options, cpus, pc, thrown, threadsCount, timeout,
                   caseSensitive, promise, timeoutId, timer, updateInterval,
                   workers, walletFound, totalAttempts, batches, port,
                   exitEvent, reported, progressLine>>

\* the exit code of a stopped worker thread: 0 when the script ran to its
\* end, 1 when it threw or was terminated
ExitCode(w) == IF thread[w].status = "finished" THEN 0 ELSE 1

\* worker.on('exit', ...): emitted once the thread has stopped and its
\* remaining messages and its 'error' event have been delivered
OnExit(w) ==
    /\ thread[w].status \in {"finished", "crashed", "terminated"}
    /\ port[w] = <<>>
    /\ ~errorEvent[w]
    /\ exitEvent[w] = "none"
    /\ exitEvent' = [exitEvent EXCEPT ![w] = "handled"]
    /\ console' = IF ExitCode(w) # 0 /\ ~walletFound
                  THEN [console EXCEPT !.exit = @ + 1]
                  ELSE console
    /\ UNCHANGED driverVars
    /\ UNCHANGED demoVars
    /\ UNCHANGED clockVars
    /\ UNCHANGED <<options, cpus, pc, thrown, threadsCount, timeout,
                   caseSensitive, promise, timeoutId, timer, updateInterval,
                   workers, walletFound, totalAttempts, thread, batches, port,
                   errorEvent, reported, progressLine>>

Next ==
    \/ Call
    \/ UpdateProgress
    \/ OnTimeout
    \/ \E w \in WorkerIds : WorkerRun(w)
    \/ \E w \in WorkerIds : WorkerThrow(w)
    \/ \E w \in WorkerIds : OnMessage(w)
    \/ \E w \in WorkerIds : OnError(w)
    \/ \E w \in WorkerIds : OnExit(w)

Spec == Init /\ [][Next]_vars

\* the search with the worker's loop taken one attempt at a time
NextWorker ==
    \/ Call
    \/ UpdateProgress
    \/ OnTimeout
    \/ \E w \in WorkerIds : WorkerAttempt(w)
    \/ \E w \in WorkerIds : WorkerThrow(w)
    \/ \E w \in WorkerIds : OnMessage(w)
    \/ \E w \in WorkerIds : OnError(w)
    \/ \E w \in WorkerIds : OnExit(w)

SpecWorker == InitWorker /\ [][NextWorker]_vars

(* --------------------------- progress on the clock --------------------- *)

\* time passes: both clocks move on by half a progress period
ClockAdvance ==
    /\ pc = "called"
    /\ uptime < MaxTicks * ProgressPeriod
    /\ uptime' = uptime + (ProgressPeriod \div 2)
    /\ UNCHANGED <<wallSkew, lastTick, rateLine>>
    /\ UNCHANGED searchVars
    /\ UNCHANGED driverVars
    /\ UNCHANGED demoVars

\* the system clock is set back (clock adjustment): Date.now() follows it,
\* the timers, which run on the monotonic clock, do not
ClockStepBack ==
    /\ pc = "called"
    /\ \E back \in {ProgressPeriod \div 2, ProgressPeriod} :
          /\ wallSkew + back <= ProgressPeriod
          /\ wallSkew' = wallSkew + back
    /\ UNCHANGED <<uptime, lastTick, rateLine>>
    /\ UNCHANGED searchVars
    /\ UNCHANGED driverVars
    /\ UNCHANGED demoVars

\* Date.now() - startTime
ElapsedMs == uptime - wallSkew

\* Math.floor(a / b) for a >= 0 and b # 0
FloorDiv(a, b) ==
    IF b > 0 THEN a \div b ELSE 0 - ((a + (0 - b) - 1) \div (0 - b))

\* Math.floor(totalAttempts / elapsedSec) with elapsedSec = elapsedMs / 1000:
\* dividing by 0 gives NaN for 0 / 0 and Infinity otherwise
RateOf(total, elapsedMs) ==
    IF elapsedMs = 0
    THEN [shown |-> TRUE, elapsedMs |-> elapsedMs,
          kind |-> IF total = 0 THEN "NaN" ELSE "Infinity", rate |-> 0]
    ELSE [shown |-> TRUE, elapsedMs |-> elapsedMs, kind |-> "finite",
          rate |-> FloorDiv(total * 1000, elapsedMs)]

\* updateProgress, run by the interval ticker once a period has passed
UpdateProgressTick ==
    /\ updateInterval = "active"
    /\ uptime - lastTick >= ProgressPeriod
    /\ lastTick' = uptime
    /\ rateLine' = RateOf(totalAttempts, ElapsedMs)
    /\ progressLine' = totalAttempts
    /\ UNCHANGED <<uptime, wallSkew>>
    /\ UNCHANGED driverVars
    /\ UNCHANGED demoVars
    /\ UNCHANGED <<options, cpus, pc, thrown, threadsCount, timeout,
                   caseSensitive, promise, timeoutId, timer, updateInterval,
                   workers, walletFound, totalAttempts, thread, batches, port,
                   errorEvent, exitEvent, console, reported>>

NextClock ==
    \/ Call
    \/ ClockAdvance
    \/ ClockStepBack
    \/ UpdateProgressTick
    \/ OnTimeout
    \/ \E w \in WorkerIds : WorkerRun(w)
    \/ \E w \in WorkerIds : WorkerThrow(w)
    \/ \E w \in WorkerIds : OnMessage(w)
    \/ \E w \in WorkerIds : OnError(w)
    \/ \E w \in WorkerIds : OnExit(w)

SpecClock == InitClock /\ [][NextClock]_vars

\* the search on a live event loop: a pending timer keeps the loop alive
\* and its callback is run once it is due
SpecFair == InitFair /\ [][Next]_vars /\ WF_vars(OnTimeout)

\* the same search, started from the requests of MatchOptions
SpecMatch == InitMatch /\ [][Next]_vars

(* ------------------- wallet and token operations ----------------------- *)
\* Each operation is an async function that awaits its SDK calls one after
\* the other and touches only its own locals, so its run from call to
\* return or throw is one action.  rpc says how each call site ends: "ok"
\* or the name of the error the SDK throws there.

Run(made, instructions, result) ==
    [calls |-> made, transaction |-> instructions, outcome |-> result]

\* return value;
Returned(value) == [kind |-> "returned", value |-> Some(value), error |-> None]

\* throw error;
Threw(error) == [kind |-> "threw", value |-> None, error |-> Some(error)]

\* the call at this site throws
Failed(site) == rpc[site] # "ok"

\* the error object the SDK throws at a call site
SdkError(site) == [from |-> site, name |-> rpc[site]]

\* new Error(message)
NewError(message) == [from |-> "new Error", name |-> message]

\* Math.pow(10, decimals)
RECURSIVE Pow10(_)
Pow10(decimals) == IF decimals = 0 THEN 1 ELSE 10 * Pow10(decimals - 1)

\* getAssociatedTokenAddress(mint, owner): the address derived from the pair
getAssociatedTokenAddress(mint, owner) == <<"ata", mint, owner>>

\* how the calls of an operation can end: every call can succeed or fail on
\* the network, an account lookup can also find no account
OutcomesOf(site) ==
    IF site \in {"getAccount(sender)", "getAccount(recipient)"}
    THEN {"ok", "TokenAccountNotFoundError", "NetworkError"}
    ELSE IF site = "getTokenAccountBalance"
    THEN {"ok", "AccountNotFound", "NetworkError"}
    ELSE {"ok", "NetworkError"}

Environments(sites) ==
    { f \in [sites -> {"ok", "TokenAccountNotFoundError", "AccountNotFound",
                       "NetworkError"}] :
        \A site \in sites : f[site] \in OutcomesOf(site) }

\* variant of MissingAccountBalance that reports the failure as a balance
MissingAccountBalanceUnknown(address) ==
    [balance |-> 0 - 1, tokenAccount |-> address]

\* the inner catch of getTokenBalance: return { balance: 0, tokenAccount }
MissingAccountBalance(address) == [balance |-> 0, tokenAccount |-> address]

\* getTokenBalance(connection, walletAddress, mintAddress)
getTokenBalance ==
    LET tokenAccountAddress ==
            getAssociatedTokenAddress(request.mint, request.wallet)
        c2 == <<"getAssociatedTokenAddress", "getMint">>
        c3 == c2 \o <<"getTokenAccountBalance">>
    IN  IF Failed("getMint")
        THEN Run(c2, <<>>, Threw(SdkError("getMint")))
        ELSE IF Failed("getTokenAccountBalance")
        THEN Run(c3, <<>>, Returned(MissingAccountBalance(tokenAccountAddress)))
        ELSE Run(c3, <<>>,
                 Returned([balance |-> ledger.amount \div Pow10(ledger.decimals),
                           tokenAccount |-> tokenAccountAddress]))

\* transferSPLToken(secretKey, recipientAddress, tokenMintAddress, amount)
transferSPLToken ==
    LET tokenAmountBigInt == request.amount * Pow10(ledger.decimals)
        recipientTokenAccount ==
            getAssociatedTokenAddress(request.mint, request.recipient)
        instructions ==
            (IF Failed("getAccount(recipient)")
             THEN <<"createAssociatedTokenAccountInstruction">>
             ELSE <<>>) \o <<"createTransferInstruction">>
        c1 == <<"getMint">>
        c2 == c1 \o <<"getAssociatedTokenAddress(sender)", "getAccount(sender)">>
        c3 == c2 \o <<"getAssociatedTokenAddress(recipient)",
                       "getAccount(recipient)">>
        c4 == c3 \o <<"getLatestBlockhash">>
        c5 == c4 \o <<"sendAndConfirmTransaction">>
    IN  IF ~request.recipientOnCurve
        THEN Run(<<>>, <<>>, Threw(NewError("InvalidRecipient")))
        ELSE IF Failed("getMint")
        THEN Run(c1, <<>>, Threw(SdkError("getMint")))
        ELSE IF Failed("getAccount(sender)")
        THEN Run(c2, <<>>, Threw(NewError("NoSenderTokenAccount")))
        ELSE IF ledger.amount < tokenAmountBigInt
        THEN Run(c2, <<>>, Threw(NewError("InsufficientTokenBalance")))
        ELSE IF Failed("getLatestBlockhash")
        THEN Run(c4, instructions, Threw(SdkError("getLatestBlockhash")))
        ELSE IF Failed("sendAndConfirmTransaction")
        THEN Run(c5, instructions,
                 Threw(SdkError("sendAndConfirmTransaction")))
        ELSE Run(c5, instructions,
                 Returned([signature |-> "signature",
                           decimals |-> ledger.decimals,
                           tokenAmount |-> request.amount,
                           tokenAmountRaw |-> tokenAmountBigInt,
                           recipientTokenAccount |-> recipientTokenAccount]))

\* transferSOL(secretKey, recipientAddress, amount)
transferSOL ==
    LET amountInLamports == request.amount * 1000000000
        instructions == <<"SystemProgram.transfer">>
        c1 == <<"getBalance">>
        c2 == c1 \o <<"getLatestBlockhash">>
        c3 == c2 \o <<"simulateTransaction">>
        c4 == c3 \o <<"sendAndConfirmTransaction">>
    IN  IF ~request.recipientOnCurve
        THEN Run(<<>>, <<>>, Threw(NewError("InvalidRecipient")))
        ELSE IF Failed("getBalance")
        THEN Run(c1, <<>>, Threw(SdkError("getBalance")))
        ELSE IF ledger.lamports < amountInLamports + 5000
        THEN Run(c1, <<>>, Threw(NewError("InsufficientBalance")))
        ELSE IF Failed("getLatestBlockhash")
        THEN Run(c2, instructions, Threw(SdkError("getLatestBlockhash")))
        ELSE IF Failed("simulateTransaction")
        THEN Run(c3, instructions, Threw(SdkError("simulateTransaction")))
        ELSE IF Failed("sendAndConfirmTransaction")
        THEN Run(c4, instructions,
                 Threw(SdkError("sendAndConfirmTransaction")))
        ELSE Run(c4, instructions, Returned("signature"))

\* getWalletBalances(walletAddress): the catch logs the error and the
\* function returns undefined on every path
getWalletBalances ==
    LET c1 == <<"getBalance">>
        c2 == c1 \o <<"getParsedTokenAccountsByOwner">>
    IN  IF Failed("getBalance")
        THEN Run(c1, <<>>, Returned("undefined"))
        ELSE Run(c2, <<>>, Returned("undefined"))

\* mintTokens(connection, payer, mintAddress, destinationAddress,
\* mintAuthority, amount): no try / catch
mintTokens ==
    LET c1 == <<"getMint">>
        c2 == c1 \o <<"getOrCreateAssociatedTokenAccount">>
        c3 == c2 \o <<"mintTo">>
    IN  IF Failed("getMint")
        THEN Run(c1, <<>>, Threw(SdkError("getMint")))
        ELSE IF Failed("getOrCreateAssociatedTokenAccount")
        THEN Run(c2, <<>>,
                 Threw(SdkError("getOrCreateAssociatedTokenAccount")))
        ELSE IF Failed("mintTo")
        THEN Run(c3, <<>>, Threw(SdkError("mintTo")))
        ELSE Run(c3, <<>>, Returned("signature"))

(* ------------------------- recovery phrases ---------------------------- *)
\* bip39, scaled down: a phrase is valid when it has three words, all from
\* the word list, the last one being the checksum of the others.

Wordlist == <<"abandon", "ability">>

Words == Range(Wordlist) \cup {"zzz"}

\* the phrases a caller may pass
Mnemonics == UNION { [1..n -> Words] : n \in 0..3 }

\* the index of a listed word, counted from 0
WordIndex(word) == (CHOOSE i \in 1..Len(Wordlist) : Wordlist[i] = word) - 1

\* variant of validateMnemonic that skips the checksum
validateMnemonicNoChecksum(mnemonic) ==
    /\ Len(mnemonic) = 3
    /\ \A i \in 1..3 : mnemonic[i] \in Range(Wordlist)

\* bip39.validateMnemonic(mnemonic)
validateMnemonic(mnemonic) ==
    /\ Len(mnemonic) = 3
    /\ \A i \in 1..3 : mnemonic[i] \in Range(Wordlist)
    /\ WordIndex(mnemonic[3]) =
           (WordIndex(mnemonic[1]) + WordIndex(mnemonic[2])) % Len(Wordlist)

\* bip39.mnemonicToSeedSync(mnemonic): a byte mixed from the words
mnemonicToSeedSync(mnemonic) ==
    (17 + 37 * WordIndex(mnemonic[1]) + 91 * WordIndex(mnemonic[2])) % 256

\* variant of PathOf that derives every wallet from account 0
PathOfFirstAccount(accountIndex) == <<44, 501, 0, 0>>

\* the path m/44'/501'/account'/0'
PathOf(accountIndex) == <<44, 501, accountIndex, 0>>

\* derivePath(path, seed).key: a byte mixed from the seed and the path
derivePath(path, seed) ==
    (seed + 3 * path[1] + 5 * path[2] + 11 * path[3] + 13 * path[4]) % 256

\* Keypair.fromSeed(derivedSeed)
KeypairFromSeed(derivedSeed) ==
    [secretKey |-> <<derivedSeed, PublicByteOf(derivedSeed)>>,
     publicKey |-> AddressOf(PublicByteOf(derivedSeed))]

\* createWalletFromMnemonic(mnemonic, path)
createWalletFromMnemonic ==
    IF ~validateMnemonic(request.mnemonic)
    THEN Run(<<"validateMnemonic">>, <<>>, Threw(NewError("InvalidMnemonic")))
    ELSE LET seed == mnemonicToSeedSync(request.mnemonic)
             derivedSeed == derivePath(request.path, seed)
         IN  Run(<<"validateMnemonic", "mnemonicToSeedSync", "derivePath",
                   "Keypair.fromSeed">>,
                 <<>>, Returned(KeypairFromSeed(derivedSeed)))

\* the calls of the first n rounds of the loop of deriveMultipleWallets
RECURSIVE DeriveCalls(_)
DeriveCalls(n) ==
    IF n = 0 THEN <<>>
    ELSE DeriveCalls(n - 1) \o <<"derivePath", "Keypair.fromSeed">>

\* deriveMultipleWallets(mnemonic, count, accountOffset)
deriveMultipleWallets ==
    IF ~validateMnemonic(request.mnemonic)
    THEN Run(<<"validateMnemonic">>, <<>>, Threw(NewError("InvalidMnemonic")))
    ELSE LET seed == mnemonicToSeedSync(request.mnemonic)
             wallets ==
                 [n \in 1..request.count |->
                     KeypairFromSeed(
                         derivePath(PathOf((n - 1) + request.accountOffset),
                                    seed))]
         IN  Run(<<"validateMnemonic", "mnemonicToSeedSync">>
                     \o DeriveCalls(request.count),
                 <<>>, Returned(wallets))

(* ------------------------- operations as actions ----------------------- *)

\* largest count deriveMultipleWallets is called with
MaxCount == 2

Requests ==
    [op : {"getTokenBalance"}, wallet : {"walletA"}, mint : {"mintX"}]
    \cup [op : {"transferSPLToken"}, recipient : {"walletB"},
          recipientOnCurve : BOOLEAN, mint : {"mintX"}, amount : {1, 7}]
    \cup [op : {"transferSOL"}, recipientOnCurve : BOOLEAN, amount : {1}]
    \cup [op : {"getWalletBalances"}, walletAddress : {"walletA"}]
    \cup [op : {"mintTokens"}, amount : {1}]
    \cup [op : {"createWalletFromMnemonic"}, mnemonic : Mnemonics,
          path : {PathOf(0), PathOf(1)}]
    \cup [op : {"deriveMultipleWallets"}, mnemonic : Mnemonics,
          count : 0..MaxCount, accountOffset : {0, 1}]

\* the SDK call sites of an operation that go to the network
SitesOf(op) ==
    IF op = "getTokenBalance" THEN {"getMint", "getTokenAccountBalance"}
    ELSE IF op = "transferSPLToken"
    THEN {"getMint", "getAccount(sender)", "getAccount(recipient)",
          "getLatestBlockhash", "sendAndConfirmTransaction"}
    ELSE IF op = "transferSOL"
    THEN {"getBalance", "getLatestBlockhash", "simulateTransaction",
          "sendAndConfirmTransaction"}
    ELSE IF op = "getWalletBalances"
    THEN {"getBalance", "getParsedTokenAccountsByOwner"}
    ELSE IF op = "mintTokens"
    THEN {"getMint", "getOrCreateAssociatedTokenAccount", "mintTo"}
    ELSE {}

\* what the successful queries of an operation can answer
LedgersOf(op) ==
    IF op \in {"getTokenBalance", "transferSPLToken"}
    THEN [decimals : {0, 2}, amount : {0, 500}, lamports : {0}]
    ELSE IF op = "transferSOL"
    THEN [decimals : {0}, amount : {0}, lamports : {1000000000, 1000005000}]
    ELSE {NoLedger}

\* an operation is called, in an idle program
InitDrivers ==
    /\ options = [prefix |-> Some(<<"a">>), suffix |-> None,
                  caseSensitive |-> None, threadsCount |-> Some(1),
                  timeout |-> Some(50)]
    /\ SearchIdle
    /\ request \in Requests
    /\ rpc \in Environments(SitesOf(request.op))
    /\ ledger \in LedgersOf(request.op)
    /\ calls = <<>>
    /\ transaction = <<>>
    /\ outcome = NoOutcome
    /\ ClockIdle
    /\ DemoIdle

\* the called operation runs to its return or throw
Finish(op, run) ==
    /\ request.op = op
    /\ outcome.kind = "pending"
    /\ calls' = run.calls
    /\ transaction' = run.transaction
    /\ outcome' = run.outcome
    /\ UNCHANGED <<request, rpc, ledger>>
    /\ UNCHANGED searchVars
    /\ UNCHANGED clockVars
    /\ UNCHANGED demoVars

GetTokenBalance == Finish("getTokenBalance", getTokenBalance)

TransferSPLToken == Finish("transferSPLToken", transferSPLToken)

TransferSOL == Finish("transferSOL", transferSOL)

GetWalletBalances == Finish("getWalletBalances", getWalletBalances)

MintTokens == Finish("mintTokens", mintTokens)

CreateWalletFromMnemonic ==
    Finish("createWalletFromMnemonic", createWalletFromMnemonic)

DeriveMultipleWallets == Finish("deriveMultipleWallets", deriveMultipleWallets)

NextDrivers ==
    \/ GetTokenBalance
    \/ TransferSPLToken
    \/ TransferSOL
    \/ GetWalletBalances
    \/ MintTokens
    \/ CreateWalletFromMnemonic
    \/ DeriveMultipleWallets

SpecDrivers == InitDrivers /\ [][NextDrivers]_vars

(* ------------------------------ token demo ----------------------------- *)
\* The script at the end of the SPL token file: a fixed sequence of awaited
\* operations against one mint and the token accounts of payer and
\* recipient.  Each operation is one action; any of its SDK calls can fail
\* on the network, which throws out of the script into its final catch.

Entry(op, owner, amount) ==
    [op |-> op, owner |-> owner, amount |-> amount, fromBalance |-> FALSE]

\* the awaited operations of the script, in order
Script ==
    << Entry("createSplToken", "payer", 0),
       Entry("getTokenInfo", "payer", 0),
       Entry("mintTokens", "payer", 1000),
       Entry("getTokenBalance", "payer", 0),
       Entry("transferTokens", "recipient", 250),
       Entry("getTokenBalance", "payer", 0),
       Entry("getTokenBalance", "recipient", 0),
       Entry("approveTokenDelegate", "payer", 100),
       Entry("revokeTokenDelegate", "payer", 0),
       Entry("getAssociatedTokenAddress", "recipient", 0),
       Entry("freezeTokenAccount", "recipient", 0),
       Entry("thawTokenAccount", "recipient", 0),
       Entry("burnTokens", "payer", 100),
       Entry("getTokenBalance", "payer", 0),
       Entry("transferMintAuthority", "payer", 0),
       Entry("getTokenInfo", "payer", 0),
       [op |-> "burnTokens", owner |-> "recipient", amount |-> 0,
        fromBalance |-> TRUE],
       Entry("closeTokenAccount", "recipient", 0) >>

\* the script stands before an operation of this kind
At(op) ==
    /\ step \in 1..Len(Script)
    /\ demoError = None
    /\ Script[step].op = op

\* the operation returns
Advance(newChain, newLocals) ==
    /\ step' = step + 1
    /\ chain' = newChain
    /\ locals' = newLocals
    /\ UNCHANGED demoError
    /\ UNCHANGED <<searchVars, driverVars, clockVars>>

\* the operation throws: the script ends in its catch
Abort(site, name, newChain) ==
    /\ demoError' = Some([from |-> site, name |-> name])
    /\ chain' = newChain
    /\ UNCHANGED <<step, locals>>
    /\ UNCHANGED <<searchVars, driverVars, clockVars>>

\* amount * Math.pow(10, tokenDecimals)
Raw(amount) == amount * Pow10(tokenDecimals)

\* getOrCreateAssociatedTokenAccount: creates the owner's account if missing
WithAccount(ch, owner) == [ch EXCEPT !.account[owner].exists = TRUE]

DemoCreateSplToken ==
    /\ At("createSplToken")
    /\ \E fail \in {"none", "createMint"} :
          IF fail # "none" THEN Abort(fail, "NetworkError", chain)
          ELSE Advance([chain EXCEPT !.minted = TRUE,
                                     !.mintAuthority = "payer"], locals)

DemoGetTokenInfo ==
    /\ At("getTokenInfo")
    /\ \E fail \in {"none", "getMint"} :
          IF fail # "none" THEN Abort(fail, "NetworkError", chain)
          ELSE Advance(chain, locals)

DemoMintTokens ==
    /\ At("mintTokens")
    /\ LET owner == Script[step].owner
           amountToMint == Raw(Script[step].amount)
           created == WithAccount(chain, owner)
       IN  \E fail \in {"none", "getMint",
                        "getOrCreateAssociatedTokenAccount", "mintTo"} :
             IF fail \in {"getMint", "getOrCreateAssociatedTokenAccount"}
             THEN Abort(fail, "NetworkError", chain)
             ELSE IF fail = "mintTo"
             THEN Abort(fail, "NetworkError", created)
             ELSE Advance([created EXCEPT
                              !.account[owner].amount = @ + amountToMint,
                              !.supply = @ + amountToMint], locals)

\* getTokenBalance: a failed balance query is answered with balance 0
DemoGetTokenBalance ==
    /\ At("getTokenBalance")
    /\ LET owner == Script[step].owner
           into == IF owner = "payer" THEN "payerBalance"
                   ELSE "recipientBalance"
           balance == chain.account[owner].amount \div Pow10(tokenDecimals)
       IN  \E fail \in {"none", "getMint", "getTokenAccountBalance"} :
             IF fail = "getMint" THEN Abort(fail, "NetworkError", chain)
             ELSE IF fail = "getTokenAccountBalance"
                     \/ ~chain.account[owner].exists
             THEN Advance(chain, [locals EXCEPT ![into] = Some(0)])
             ELSE Advance(chain, [locals EXCEPT ![into] = Some(balance)])

DemoTransferTokens ==
    /\ At("transferTokens")
    /\ LET to == Script[step].owner
           amountToTransfer == Raw(Script[step].amount)
           created == WithAccount(WithAccount(chain, "payer"), to)
       IN  \E fail \in {"none", "getMint",
                        "getOrCreateAssociatedTokenAccount", "transfer"} :
             IF fail \in {"getMint", "getOrCreateAssociatedTokenAccount"}
             THEN Abort(fail, "NetworkError", chain)
             ELSE IF fail = "transfer"
             THEN Abort(fail, "NetworkError", created)
             ELSE IF \/ created.account["payer"].amount < amountToTransfer
                     \/ created.account["payer"].frozen
                     \/ created.account[to].frozen
             THEN Abort("transfer", "ProgramError", created)
             ELSE Advance([created EXCEPT
                              !.account["payer"].amount = @ - amountToTransfer,
                              !.account[to].amount = @ + amountToTransfer],
                          locals)

DemoApproveTokenDelegate ==
    /\ At("approveTokenDelegate")
    /\ LET owner == Script[step].owner
       IN  \E fail \in {"none", "getMint",
                        "getOrCreateAssociatedTokenAccount", "approve"} :
             IF fail # "none" THEN Abort(fail, "NetworkError", chain)
             ELSE Advance([chain EXCEPT !.account[owner].delegated =
                                           Raw(Script[step].amount)], locals)

DemoRevokeTokenDelegate ==
    /\ At("revokeTokenDelegate")
    /\ LET owner == Script[step].owner
       IN  \E fail \in {"none", "getOrCreateAssociatedTokenAccount",
                        "revoke"} :
             IF fail # "none" THEN Abort(fail, "NetworkError", chain)
             ELSE Advance([chain EXCEPT !.account[owner].delegated = 0],
                          locals)

\* const recipientTokenAccount = await getAssociatedTokenAddress(...)
DemoGetAssociatedTokenAddress ==
    /\ At("getAssociatedTokenAddress")
    /\ Advance(chain,
               [locals EXCEPT !.recipientTokenAccount =
                   Some(getAssociatedTokenAddress("tokenMint",
                                                  Script[step].owner))])

DemoFreezeTokenAccount ==
    /\ At("freezeTokenAccount")
    /\ LET owner == Script[step].owner
       IN  \E fail \in {"none", "getLatestBlockhash",
                        "sendAndConfirmTransaction"} :
             IF fail # "none" THEN Abort(fail, "NetworkError", chain)
             ELSE IF ~chain.account[owner].exists
             THEN Abort("sendAndConfirmTransaction", "ProgramError", chain)
             ELSE Advance([chain EXCEPT !.account[owner].frozen = TRUE],
                          locals)

DemoThawTokenAccount ==
    /\ At("thawTokenAccount")
    /\ LET owner == Script[step].owner
       IN  \E fail \in {"none", "getLatestBlockhash",
                        "sendAndConfirmTransaction"} :
             IF fail # "none" THEN Abort(fail, "NetworkError", chain)
             ELSE IF ~chain.account[owner].frozen
             THEN Abort("sendAndConfirmTransaction", "ProgramError", chain)
             ELSE Advance([chain EXCEPT !.account[owner].frozen = FALSE],
                          locals)

DemoBurnTokens ==
    /\ At("burnTokens")
    /\ LET owner == Script[step].owner
           amount == IF Script[step].fromBalance
                     THEN Val(locals.recipientBalance)
                     ELSE Script[step].amount
           amountToBurn == Raw(amount)
           created == WithAccount(chain, owner)
       IN  \E fail \in {"none", "getMint",
                        "getOrCreateAssociatedTokenAccount", "burn"} :
             IF fail \in {"getMint", "getOrCreateAssociatedTokenAccount"}
             THEN Abort(fail, "NetworkError", chain)
             ELSE IF fail = "burn"
             THEN Abort(fail, "NetworkError", created)
             ELSE IF \/ created.account[owner].amount < amountToBurn
                     \/ created.account[owner].frozen
             THEN Abort("burn", "ProgramError", created)
             ELSE Advance([created EXCEPT
                              !.account[owner].amount = @ - amountToBurn,
                              !.supply = @ - amountToBurn], locals)

DemoTransferMintAuthority ==
    /\ At("transferMintAuthority")
    /\ \E fail \in {"none", "getLatestBlockhash",
                    "sendAndConfirmTransaction"} :
          IF fail # "none" THEN Abort(fail, "NetworkError", chain)
          ELSE Advance([chain EXCEPT !.mintAuthority = "newAuthority"], locals)

\* closeTokenAccount: the token program closes only an account that holds
\* no tokens and is not frozen
DemoCloseTokenAccount ==
    /\ At("closeTokenAccount")
    /\ LET owner == Script[step].owner
       IN  \E fail \in {"none", "getLatestBlockhash",
                        "sendAndConfirmTransaction"} :
             IF fail # "none" THEN Abort(fail, "NetworkError", chain)
             ELSE IF \/ chain.account[owner].amount # 0
                     \/ chain.account[owner].frozen
             THEN Abort("sendAndConfirmTransaction", "ProgramError", chain)
             ELSE Advance([chain EXCEPT !.account[owner] = NoAccount], locals)

\* the script starts, nothing else runs
InitDemo ==
    /\ options = [prefix |-> Some(<<"a">>), suffix |-> None,
                  caseSensitive |-> None, threadsCount |-> Some(1),
                  timeout |-> Some(50)]
    /\ SearchIdle
    /\ DriverIdle
    /\ ClockIdle
    /\ step = 1
    /\ chain = NoChain
    /\ locals = NoLocals
    /\ demoError = None

NextDemo ==
    \/ DemoCreateSplToken
    \/ DemoGetTokenInfo
    \/ DemoMintTokens
    \/ DemoGetTokenBalance
    \/ DemoTransferTokens
    \/ DemoApproveTokenDelegate
    \/ DemoRevokeTokenDelegate
    \/ DemoGetAssociatedTokenAddress
    \/ DemoFreezeTokenAccount
    \/ DemoThawTokenAccount
    \/ DemoBurnTokens
    \/ DemoTransferMintAuthority
    \/ DemoCloseTokenAccount

SpecDemo == InitDemo /\ [][NextDemo]_vars

(* ------------------------------ properties ----------------------------- *)

Running(w) == thread[w].status = "running"

Settled == promise.state \in {"fulfilled", "rejected"}

\* a step that delivers a found message of worker w
DeliversFound(w) == OnMessage(w) /\ Head(port[w]).found

\* a step that delivers a found message of worker w and runs the found branch
HonorsStep(w) == DeliversFound(w) /\ ~walletFound

\* C1: only the first found message is honored.  At most one result is
\* logged, and delivering a found message once walletFound is set changes
\* nothing of the coordinator: not the promise, the flag, the counters,
\* the log, the timer, the ticker or any worker.
C1_FirstFoundWins ==
    /\ [](console.found <= 1)
    /\ [][\A w \in WorkerIds :
            (DeliversFound(w) /\ walletFound) =>
                UNCHANGED <<promise, walletFound, totalAttempts, console,
                            reported, timer, updateInterval, thread>>]_vars

\* C1 witness: two workers each posted a found message, both messages were
\* delivered, and exactly one result was produced.
C1_Witness ==
    \E w1, w2 \in WorkerIds :
        /\ w1 # w2
        /\ thread[w1].status = "finished" /\ port[w1] = <<>>
        /\ thread[w2].status = "finished" /\ port[w2] = <<>>
        /\ console.found = 1
        /\ promise.state = "fulfilled"

\* C2: the terminal outcome is reported exactly once: the found report and
\* the timeout report never both happen, and neither happens twice.
C2_OutcomeReportedOnce == console.found + console.timeout <= 1

\* C3: once the timeout has fired, no worker is running and the search has
\* failed with the Timeout error, in that state and in every later one.
C3_TimeoutStopsAll ==
    timer = "fired" =>
        /\ \A w \in WorkerIds : ~Running(w)
        /\ promise.state = "rejected"
        /\ promise.error = "Timeout"

\* C3 witness: the timeout fired on a search with the largest worker count
\* while workers were running, so that each of them was terminated by it.
C3_Witness ==
    /\ timer = "fired"
    /\ Len(workers) = MaxThreads
    /\ \A w \in WorkerIds : thread[w].status = "terminated"
    /\ ~walletFound

\* C4: a request with timeout 0 arms no timer and never ends in TimedOut.
C4_ZeroMeansNoTimeout ==
    options.timeout = Some(0) =>
        /\ timer = "none"
        /\ timeoutId = "null"
        /\ promise.error # "Timeout"

\* C5: the step that honors a match leaves no worker running, no timer
\* pending and no ticker active, and the promise is fulfilled with the key
\* pair rebuilt from that message's secret key.
C5_FoundSettlesAll ==
    [][\A w \in WorkerIds :
          HonorsStep(w) =>
              /\ \A v \in WorkerIds : thread'[v].status # "running"
              /\ timer' # "pending"
              /\ updateInterval' # "active"
              /\ promise'.state = "fulfilled"
              /\ promise'.keypair.secretKey = Head(port[w]).secretKey]_vars

\* the winner's attempts since its last progress message: its batches reach
\* the coordinator before its found message, one per completed boundary
InFlight(message) ==
    message.attempts
        - ((message.attempts - 1) \div progressInterval) * progressInterval

\* C6: the attempt count reported with the match is the running total of
\* the progress batches received plus the winner's in-flight attempts, so
\* that the winner's own batches are counted once.
C6_NoDoubleCount ==
    [][\A w \in WorkerIds :
          HonorsStep(w) =>
              reported' = totalAttempts + InFlight(Head(port[w]))]_vars

\* C7: once the search is settled, delivering any message of any worker
\* changes neither totalAttempts nor walletFound nor the outcome, and logs
\* nothing.
C7_NoMessageAfterTerminal ==
    [][\A w \in WorkerIds :
          (Settled /\ OnMessage(w)) =>
              UNCHANGED <<totalAttempts, walletFound, promise, console,
                          reported>>]_vars

\* the request gives neither a prefix nor a suffix: each is absent or empty
NoPatternGiven ==
    /\ options.prefix \in {None, Some(<<>>)}
    /\ options.suffix \in {None, Some(<<>>)}

\* C8: a request with neither prefix nor suffix (absent or empty) fails with
\* the invalid-request error; no worker is spawned, no timer is armed and no
\* ticker is started for it.
C8_MissingPatternRejected ==
    NoPatternGiven =>
        /\ pc \in {"idle", "thrown"}
        /\ (pc = "thrown" => thrown = "InvalidRequest")
        /\ workers = <<>>
        /\ \A w \in WorkerIds : thread[w].status = "unborn"
        /\ timer = "none" /\ timeoutId = "null"
        /\ updateInterval = "none"
        /\ promise.state = "none"

\* C8 witness: a call with an empty prefix and no suffix has thrown.
C8_Witness ==
    /\ pc = "thrown"
    /\ options.prefix = Some(<<>>)
    /\ options.suffix = None

\* every spawned worker has died with an error and its handler has run
AllWorkersFailed ==
    /\ pc = "called"
    /\ \A w \in Range(workers) : thread[w].status = "crashed" /\ ~errorEvent[w]

\* C9: when every worker has failed and no match was found, the search does
\* not stay pending: the promise is rejected.
C9_TotalFailureRejects ==
    (AllWorkersFailed /\ ~walletFound) => promise.state = "rejected"

\* C10: the error handler of one worker, run while another worker is still
\* running, leaves the outcome, the flag, the timer and every other worker
\* and its messages as they are, and leaves the failing worker stopped; and
\* in a pending search in which a worker has died, the next found message
\* delivered still becomes the result.
C10_ErrorIsIsolated ==
    /\ [][\A w \in WorkerIds :
            (OnError(w) /\ \E v \in WorkerIds : v # w /\ Running(v)) =>
                /\ UNCHANGED <<promise, walletFound, timer, timeoutId,
                               updateInterval, totalAttempts>>
                /\ \A v \in WorkerIds \ {w} :
                      thread'[v] = thread[v] /\ port'[v] = port[v]
                /\ thread'[w].status # "running"]_vars
    /\ [][\A v \in WorkerIds :
            (/\ DeliversFound(v)
             /\ promise.state = "pending"
             /\ \E w \in WorkerIds : thread[w].status = "crashed") =>
                /\ promise'.state = "fulfilled"
                /\ promise'.keypair.secretKey = Head(port[v]).secretKey]_vars

\* C10 witness: a worker died and its exit was logged while the search was
\* still running, and the search was then resolved by another worker's match.
C10_Witness ==
    \E w, v \in WorkerIds :
        /\ thread[w].status = "crashed" /\ exitEvent[w] = "handled"
        /\ console.error >= 1 /\ console.exit >= 1 /\ console.timeout = 0
        /\ thread[v].status = "finished"
        /\ promise.state = "fulfilled"

\* the case sensitivity the request asks for: true unless false is given
RequestedCaseSensitive == options.caseSensitive # Some(FALSE)

\* the address text satisfies the requested pattern: it starts with the
\* prefix and ends with the suffix, each when given, compared exactly when
\* the request is case sensitive and letter-case folded otherwise
SatisfiesRequest(address) ==
    LET fold(s) == IF RequestedCaseSensitive THEN s ELSE toLowerCase(s)
    IN  /\ StrTruthy(options.prefix) =>
              startsWith(fold(address), fold(Val(options.prefix)))
        /\ StrTruthy(options.suffix) =>
              endsWith(fold(address), fold(Val(options.suffix)))

\* C11: the address of the key pair a search resolves with satisfies the
\* requested prefix and suffix under the requested case sensitivity.
C11_ResultMatchesPattern ==
    promise.state = "fulfilled" => SatisfiesRequest(promise.keypair.publicKey)

\* C11 witness: a case-sensitive search for prefix "a" resolved with the
\* address "ab", although the workers could also generate "Ab".
C11_Witness ==
    /\ promise.state = "fulfilled"
    /\ options.caseSensitive = None
    /\ options.prefix = Some(<<"a">>)
    /\ promise.keypair.publicKey = <<"a", "b">>
    /\ \E k \in KeypairGenerate : k.publicKey = <<"A", "b">>

RequestedWorkers ==
    IF options.threadsCount # None THEN Val(options.threadsCount)
    ELSE IF cpus - 1 >= 1 THEN cpus - 1 ELSE 1

\* C14: a valid search has spawned exactly the requested number of workers,
\* which is at least one.
C14_WorkerCount ==
    pc = "called" =>
        /\ Len(workers) = RequestedWorkers
        /\ Len(workers) >= 1
        /\ Cardinality({w \in WorkerIds : thread[w].status # "unborn"})
              = RequestedWorkers
        /\ (options.threadsCount = None => cpus \in CpuCounts)

\* C14 witness: threadsCount was omitted on a machine with one hardware
\* unit, and one worker was spawned.
C14_Witness ==
    /\ pc = "called"
    /\ options.threadsCount = None
    /\ cpus = 1
    /\ Len(workers) = 1

Letters == {"a", "A", "b", "B"}

\* every two-letter address text, in every letter-casing
AllAddresses == { <<x, y>> : x \in Letters, y \in Letters }

\* the lower-cased address starts with the lower-cased prefix and ends with
\* the lower-cased suffix, each when given
MatchesIgnoringCase(address) ==
    /\ StrTruthy(options.prefix) =>
          startsWith(toLowerCase(address), toLowerCase(Val(options.prefix)))
    /\ StrTruthy(options.suffix) =>
          endsWith(toLowerCase(address), toLowerCase(Val(options.suffix)))

\* C12: in a search with caseSensitive = false, checkAddress accepts exactly
\* the addresses whose lower-cased text matches the lower-cased pattern; two
\* addresses that differ only in letter case are accepted or rejected
\* together, and every found message posted carries such an address.
C12_CaseInsensitiveMatch ==
    (pc = "called" /\ options.caseSensitive = Some(FALSE)) =>
        /\ \A address \in AllAddresses :
              checkAddress(address) <=> MatchesIgnoringCase(address)
        /\ \A a1, a2 \in AllAddresses :
              toLowerCase(a1) = toLowerCase(a2) =>
                  (checkAddress(a1) <=> checkAddress(a2))
        /\ \A w \in WorkerIds : \A i \in 1..Len(port[w]) :
              port[w][i].found => MatchesIgnoringCase(port[w][i].publicKey)

\* C12 witness: a case-insensitive search for the upper-case prefix "A"
\* resolved with the lower-case address "ab".
C12_Witness ==
    /\ options.caseSensitive = Some(FALSE)
    /\ options.prefix = Some(<<"A">>)
    /\ promise.state = "fulfilled"
    /\ promise.keypair.publicKey = <<"a", "b">>

\* a step in which worker w posts a message
Posts(w) == Len(port'[w]) = Len(port[w]) + 1

\* the message worker w posts in that step
Posted(w) == port'[w][Len(port'[w])]

\* a step in which worker w makes an attempt that does not match
Misses(w) ==
    /\ thread[w].status = "running"
    /\ thread'[w].status = "running"
    /\ thread'[w].attempts = thread[w].attempts + 1

\* C19: a worker posts only while it runs.  A found message is posted by the
\* attempt that matches, carries that attempt's ordinal, and the worker has
\* stopped with it and stays stopped, so it posts nothing after it.  A
\* progress message carries the delta 1000 and is posted by a missing attempt
\* whose ordinal is a multiple of 1000; every such attempt posts one, and a
\* missing attempt with another ordinal posts nothing.
C19_WorkerMessages ==
    [][\A w \in WorkerIds :
          /\ Posts(w) =>
                /\ thread[w].status = "running"
                /\ \/ /\ Posted(w).found /\ ~Posted(w).progress
                      /\ Posted(w).attempts = thread[w].attempts + 1
                      /\ thread'[w].status = "finished"
                   \/ /\ Posted(w).progress /\ ~Posted(w).found
                      /\ Posted(w).attempts = 1000
                      /\ Misses(w)
                      /\ thread'[w].attempts % 1000 = 0
          /\ (Misses(w) /\ thread'[w].attempts % 1000 = 0) =>
                (Posts(w) /\ Posted(w).progress)
          /\ (Misses(w) /\ thread'[w].attempts % 1000 # 0) => port'[w] = port[w]
          /\ thread[w].status = "finished" => thread'[w].status = "finished"]_vars

\* C19 witness: a worker posted a progress message after its 1000th attempt
\* and then a found message for a later attempt, and stopped.
C19_Witness ==
    \E w \in WorkerIds :
        /\ thread[w].status = "finished"
        /\ Len(port[w]) = 2
        /\ port[w][1].progress
        /\ port[w][2].found /\ port[w][2].attempts > 1000

\* worker w's thread has ended: its script finished, threw, or was terminated
HasStopped(w) == thread[w].status \in {"finished", "crashed", "terminated"}

Done == outcome.kind # "pending"

\* the operations that call the blockchain SDK
SdkOps == {"getTokenBalance", "transferSPLToken", "transferSOL",
           "getWalletBalances", "mintTokens"}

\* C15: an operation that calls the blockchain SDK makes no call twice, and
\* when one of its calls fails on the network it throws that call's error,
\* the same object, to its caller.
C15_SdkErrorsPropagate ==
    (request.op \in SdkOps /\ Done) =>
        /\ \A i, j \in 1..Len(calls) : i # j => calls[i] # calls[j]
        /\ \A i \in 1..Len(calls) :
              (calls[i] \in DOMAIN rpc /\ rpc[calls[i]] = "NetworkError") =>
                  outcome = Threw(SdkError(calls[i]))

\* the phrases of Mnemonics that bip39 accepts, listed one by one
WellFormedPhrases ==
    { <<"abandon", "abandon", "abandon">>, <<"abandon", "ability", "ability">>,
      <<"ability", "abandon", "ability">>, <<"ability", "ability", "abandon">> }

MnemonicOps == {"createWalletFromMnemonic", "deriveMultipleWallets"}

\* C16: called with a malformed recovery phrase, createWalletFromMnemonic
\* and deriveMultipleWallets throw the invalid-mnemonic error having only
\* validated the phrase: no seed and no key was derived, and nothing, so no
\* partial wallet list, is returned.
C16_MalformedPhraseRejected ==
    (request.op \in MnemonicOps /\ Done
        /\ request.mnemonic \notin WellFormedPhrases) =>
        /\ outcome.kind = "threw"
        /\ outcome.error = Some(NewError("InvalidMnemonic"))
        /\ outcome.value = None
        /\ calls = <<"validateMnemonic">>

\* C16 witness: deriveMultipleWallets was asked for wallets from a phrase of
\* three listed words with a wrong checksum, and threw.
C16_Witness ==
    /\ request.op = "deriveMultipleWallets"
    /\ request.count > 0
    /\ request.mnemonic = <<"abandon", "abandon", "ability">>
    /\ outcome.kind = "threw"

\* C17: in transferSPLToken the instruction that creates the recipient's
\* token account is in the transaction exactly when the recipient has no
\* token account, not when the lookup failed for another reason; when it is
\* there it comes first and the transfer instruction second, and when the
\* recipient has the account the transfer instruction is alone.
C17_CreatesAccountWhenMissing ==
    (request.op = "transferSPLToken" /\ Done
        /\ "getAccount(recipient)" \in Range(calls)) =>
        /\ "createAssociatedTokenAccountInstruction" \in Range(transaction)
              <=> rpc["getAccount(recipient)"] = "TokenAccountNotFoundError"
        /\ "createAssociatedTokenAccountInstruction" \in Range(transaction)
              => transaction = <<"createAssociatedTokenAccountInstruction",
                                 "createTransferInstruction">>
        /\ rpc["getAccount(recipient)"] = "ok"
              => transaction = <<"createTransferInstruction">>

\* C18: when the balance query of getTokenBalance fails because the token
\* account does not exist, getTokenBalance returns balance 0 together with
\* the associated token-account address derived from mint and wallet.
C18_MissingAccountIsZero ==
    (request.op = "getTokenBalance" /\ Done /\ rpc["getMint"] = "ok"
        /\ rpc["getTokenAccountBalance"] = "AccountNotFound") =>
        /\ outcome.kind = "returned"
        /\ outcome.value =
               Some([balance |-> 0,
                     tokenAccount |->
                         getAssociatedTokenAddress(request.mint, request.wallet)])

\* C18 witness: getTokenBalance has returned after its balance query found
\* no account.
C18_Witness ==
    /\ request.op = "getTokenBalance"
    /\ rpc["getMint"] = "ok"
    /\ rpc["getTokenAccountBalance"] = "AccountNotFound"
    /\ outcome.kind = "returned"
    /\ "getTokenAccountBalance" \in Range(calls)

\* the key pair derived from a valid phrase along m/44'/501'/account'/0'
WalletAt(mnemonic, account) ==
    KeypairFromSeed(derivePath(<<44, 501, account, 0>>,
                               mnemonicToSeedSync(mnemonic)))

\* for a valid phrase and the default path createWalletFromMnemonic returns
\* the wallet of account 0
DefaultPathIsFirstAccount ==
    (request.op = "createWalletFromMnemonic" /\ Done
        /\ request.mnemonic \in WellFormedPhrases
        /\ request.path = <<44, 501, 0, 0>>) =>
        outcome = Returned(WalletAt(request.mnemonic, 0))

\* for a valid phrase deriveMultipleWallets returns count wallets, the i-th
\* from the path of account accountOffset + i
WalletsFollowPaths ==
    (request.op = "deriveMultipleWallets" /\ Done
        /\ request.mnemonic \in WellFormedPhrases) =>
        /\ outcome.kind = "returned"
        /\ LET wallets == Val(outcome.value)
           IN  /\ Len(wallets) = request.count
               /\ \A i \in 0..(request.count - 1) :
                     wallets[i + 1] =
                         WalletAt(request.mnemonic, request.accountOffset + i)
               /\ \A i, j \in 0..(request.count - 1) :
                     i # j => PathOf(request.accountOffset + i)
                                  # PathOf(request.accountOffset + j)
               /\ (request.accountOffset = 0 /\ request.count > 0) =>
                     wallets[1] = WalletAt(request.mnemonic, 0)

\* C22: for a valid phrase deriveMultipleWallets returns exactly count key
\* pairs, the i-th (from 0) derived from m/44'/501'/(accountOffset+i)'/0';
\* the paths of different indices differ, and with accountOffset 0 the
\* first wallet is the one createWalletFromMnemonic returns for the phrase
\* and the default path.
C22_DerivedWalletsFollowPaths ==
    WalletsFollowPaths /\ DefaultPathIsFirstAccount

\* C22 witness: deriveMultipleWallets returned at least two wallets for a
\* valid phrase and accountOffset 0.
C22_Witness ==
    /\ request.op = "deriveMultipleWallets"
    /\ request.mnemonic \in WellFormedPhrases
    /\ request.accountOffset = 0
    /\ request.count >= 2
    /\ outcome.kind = "returned"
    /\ Len(Val(outcome.value)) = request.count

AtClose == At("closeTokenAccount")

\* C23: when the token script calls closeTokenAccount on the recipient's
\* token account, that account holds no tokens and is not frozen: what was
\* burned from it just before is its whole balance.
C23_ClosedAccountIsEmpty ==
    AtClose =>
        /\ chain.account["recipient"].amount = 0
        /\ ~chain.account["recipient"].frozen

\* the workers that were ever created
Born == { w \in WorkerIds : thread[w].status # "unborn" }

\* C25: from the return of the call on, so before any worker message or the
\* timeout callback is handled, every worker that exists is in the worker
\* list and the list is complete; no worker is created later, in
\* particular not after a match or the timeout; and after the terminate-all
\* of a match or of the timeout no worker that ever existed is running.
C25_AllWorkersRegistered ==
    /\ [](pc = "called" =>
             /\ Born = Range(workers)
             /\ Len(workers) = threadsCount
             /\ Cardinality(Born) = threadsCount
             /\ ((timer = "fired" \/ walletFound) =>
                    \A w \in Born : thread[w].status # "running"))
    /\ [][pc = "called" =>
             /\ workers' = workers
             /\ \A w \in WorkerIds :
                   thread[w].status = "unborn" => thread'[w].status = "unborn"]_vars

\* C25 witness: a match was honored in a search with the largest worker
\* count: the winner had finished and every other worker was terminated.
C25_Witness ==
    /\ walletFound
    /\ timer # "fired"
    /\ Len(workers) = MaxThreads
    /\ \E w \in WorkerIds :
          /\ thread[w].status = "finished"
          /\ \A v \in WorkerIds \ {w} : thread[v].status = "terminated"

\* C24: every call that passes validation, whether its timeout is omitted,
\* 0 or positive, has a timer armed, which only the step that honors a
\* match clears, and its promise is eventually settled, also when no worker
\* ever matches or all workers die.
C24_EventuallySettles ==
    /\ [](pc = "called" => (timeoutId = "set" /\ timer # "none"))
    /\ [][(timer = "pending" /\ timer' = "cleared") =>
             \E w \in WorkerIds : HonorsStep(w)]_vars
    /\ (pc = "called") ~> Settled

\* C24 witness: every worker of the search died with an error, none matched,
\* and the timeout rejected the promise.
C24_Witness ==
    /\ pc = "called"
    /\ ~walletFound
    /\ \A w \in Range(workers) : thread[w].status = "crashed"
    /\ timer = "fired"
    /\ promise.state = "rejected"

====
